---------------------------- MODULE Spec2Model ----------------------------
(***************************************************************************)
(* Wallet session registry and wrapped-token resolver of wormhole-connect. *)
(*                                                                         *)
(* The registry part models the module-level walletConnection object, the  *)
(* redux wallet slice it dispatches to, localStorage's                     *)
(* "wormhole-connect:wallet:<context>" keys and the listeners that         *)
(* connectWallet attaches to a Wallet.  Every await of the source is a     *)
(* suspension point: a call in flight is an entry of tasks, and the        *)
(* continuation after the await is an action of its own.                   *)
(*                                                                         *)
(* The resolver part models getTokenBridgeWrappedTokenAddress and its      *)
(* synchronous variant over config.wrappedTokenAddressCache.               *)
(*                                                                         *)
(* The dispatcher part models switchChain, signAndSendTransaction and      *)
(* watchAsset: the role's binding is read at the call, the chain's adapter *)
(* module is imported on demand, and its routine is awaited.               *)
(*                                                                         *)
(* The normalizer part models parseReceipt and the three parsers it        *)
(* dispatches to, over receipts drawn from small sets.                     *)
(***************************************************************************)
EXTENDS Integers, Sequences, FiniteSets, TLC

VARIABLES
  walletConnection,  \* role -> Wallet | undefined          (part_002:43-46)
  walletStore,       \* role -> {address, name} of the redux wallet slice
  localStorage,      \* chain context -> persisted wallet name | null
  listeners,         \* wallet -> the listener pairs connectWallet attached
  tasks,             \* connectWallet / connectLastUsedWallet calls in flight
  cache,             \* config.wrappedTokenAddressCache: (token key, chain) -> address
  resolving,         \* getTokenBridgeWrappedTokenAddress calls in flight
  resolved,          \* the completed resolver calls, in completion order
  adapters,          \* how often each utils/wallet/<context> module was loaded
  walletChain,       \* wallet -> the chain its getNetworkInfo() reports
  dispatching,       \* switchChain / signAndSendTransaction / watchAsset calls in flight
  parsing,           \* parseReceipt calls in flight
  last               \* what the last operation did and returned

vars == <<walletConnection, walletStore, localStorage, listeners, tasks, cache, resolving, resolved, adapters, walletChain, dispatching, parsing, last>>

registryVars == <<walletConnection, walletStore, localStorage, listeners, tasks>>

registryVarsButTasks == <<walletConnection, walletStore, localStorage, listeners>>

resolverVars == <<cache, resolving, resolved>>

dispatcherVars == <<adapters, walletChain, dispatching>>

parserVars == <<parsing>>

---------------------------------------------------------------------------
(* Bounds of the model *)

\* connectWallet / connectLastUsedWallet calls that may be in flight at once
MaxTasks == 2

\* listener pairs attached to wallets at once (successful connects whose
\* wallet has emitted no disconnect event since)
MaxListeners == 2

\* resolver calls started over a run
MaxCalls == 3

\* dispatcher calls that may be in flight at once
MaxDispatching == 1

\* parseReceipt calls that may be in flight at once
MaxParsing == 1

---------------------------------------------------------------------------
(* Values *)

undefined == "undefined"

SENDING == "sending"

RECEIVING == "receiving"

TransferWallet == {SENDING, RECEIVING}

\* Wallet objects, named by getName(); mapWallets keeps one wallet per name.
Wallets == {"MetaMask", "WalletConnect"}

Addresses == {"0xA", "0xB"}

\* Chains a caller may pass; "Unconfigured" has no entry in config.chains.
Chains == {"Ethereum", "Solana", "Unconfigured"}

ConfiguredChains == {"Ethereum", "Solana"}

\* Chains handed to the dispatcher; the chain id of a chain stands for it.
DispatchChains == {"Ethereum", "Bsc", "Solana", "Sui", "Aptos", "Osmosis", "Sei"}

\* config.chains[chain].context
ChainContext(chain) ==
  CASE chain \in {"Ethereum", "Bsc"} -> "ETH"
    [] chain = "Sui" -> "SUI"
    [] chain = "Aptos" -> "APTOS"
    [] chain = "Osmosis" -> "COSMOS"
    [] chain = "Sei" -> "SEI"
    [] OTHER -> "SOLANA"

ContextNames == {ChainContext(c) : c \in ConfiguredChains}

null == "null"

\* The result of a call that ended by throwing.
thrown == "thrown"

\* TokenConfig records, as far as the resolver reads them.
Tokens == {[key |-> "WETH"], [key |-> "USDC"]}

\* Chains whose wrapped addresses are resolved.
ResolverChains == {"Solana", "Bsc"}

\* The redux wallet slice's empty entry.
NoWallet == [address |-> "", name |-> ""]

\* getWalletOptions(chainConfig): the wallets offered for a chain's context.
getWalletOptions(context) == IF context = "ETH" THEN Wallets ELSE {}

\* The account lists an accountsChanged event may carry.
AccountLists == {<<>>} \cup {<<a>> : a \in Addresses}

RemoveAt(s, i) == [k \in 1..(Len(s) - 1) |-> IF k < i THEN s[k] ELSE s[k + 1]]

---------------------------------------------------------------------------
(* Initial state: nothing connected, nothing persisted, empty cache *)

Init ==
  /\ walletConnection = [r \in TransferWallet |-> undefined]
  /\ walletStore = [r \in TransferWallet |-> NoWallet]
  /\ localStorage = [c \in ContextNames |-> undefined]
  /\ listeners = [w \in Wallets |-> <<>>]
  /\ tasks = <<>>
  /\ cache = [p \in {} |-> undefined]
  /\ resolving = <<>>
  /\ resolved = <<>>
  /\ adapters = [m \in {"evm", "solana", "sui", "aptos", "cosmos"} |-> 0]
  /\ walletChain = [w \in Wallets |-> "Ethereum"]
  /\ dispatching = <<>>
  /\ parsing = <<>>
  /\ last = [op |-> "init"]

---------------------------------------------------------------------------
(* Wallet session registry *)

setWalletConnection(wc, type, wallet) == [wc EXCEPT ![type] = wallet]

\* connect calls still awaiting their handshake
Connecting == {k \in DOMAIN tasks : tasks[k].pc = "connect"}

RECURSIVE Attached(_)
Attached(ws) ==
  IF ws = {} THEN 0
  ELSE LET w == CHOOSE x \in ws : TRUE IN Len(listeners[w]) + Attached(ws \ {w})

\* Room for the listener pair one more successful connect attaches.
ListenerRoom == Attached(Wallets) + Cardinality(Connecting) < MaxListeners

\* The rejection replaced by an error of the caller's own.
AwaitRethrownAsOwn(outcome) == "transaction failed"

\* What a caller of an async function sees of the outcome of a call it awaits
\* outside any try block: the callee's rejection is the caller's rejection.
AwaitUncaught(outcome) == outcome

\* How connectLastUsedWallet ends when the connectWallet call it awaits ends
\* with `outcome` ("none": the call was not made by connectLastUsedWallet).
LastUsedOutcome(kind, outcome) ==
  IF kind = "connectLastUsedWallet" THEN AwaitUncaught(outcome) ELSE "none"

\* connectWallet up to its await of wallet.connect: the binding is written
\* first, then the chain is looked up; `others` are the other calls in flight.
connectWalletCall(type, chain, wallet, kind, lastUsed, others) ==
  /\ walletConnection' = setWalletConnection(walletConnection, type, wallet)
  /\ IF chain \notin ConfiguredChains
       THEN /\ tasks' = others
            /\ last' = [op |-> "connectWallet", outcome |-> "error",
                        lastUsedOutcome |-> LastUsedOutcome(kind, "error")]
       ELSE /\ tasks' = Append(others, [kind |-> kind, pc |-> "connect", type |-> type,
                                        chain |-> chain, wallet |-> wallet,
                                        lastUsed |-> lastUsed])
            /\ last' = [op |-> "connectWallet", outcome |-> "pending",
                        lastUsedOutcome |-> LastUsedOutcome(kind, "pending")]
  /\ UNCHANGED <<walletStore, localStorage, listeners, resolverVars, dispatcherVars, parserVars>>

\* A call by the wallet picker.  connectWallet takes any walletInfo and does
\* not check it against the chain.
connectWallet(type, chain, wallet) ==
  /\ Len(tasks) < MaxTasks
  /\ ListenerRoom
  /\ connectWalletCall(type, chain, wallet, "connectWallet", undefined, tasks)

\* wallet.connect resolved: publish, attach both listeners, persist the name.
connectWalletResolved(i, address) ==
  /\ i \in DOMAIN tasks
  /\ tasks[i].pc = "connect"
  /\ LET t == tasks[i]
         w == t.wallet
         context == ChainContext(t.chain)
     IN /\ walletStore' = [walletStore EXCEPT ![t.type] = [address |-> address, name |-> w]]
        /\ listeners' = [listeners EXCEPT ![w] =
                           Append(@, [type |-> t.type, context |-> context,
                                      address |-> address])]
        /\ localStorage' = [localStorage EXCEPT ![context] = w]
        /\ tasks' = RemoveAt(tasks, i)
        /\ last' = [op |-> "connectWallet", outcome |-> "ok", wallet |-> w,
                    context |-> context,
                    lastUsedOutcome |-> LastUsedOutcome(t.kind, "ok")]
  /\ UNCHANGED <<walletConnection, resolverVars, dispatcherVars, parserVars>>

\* The name persisted before the handshake has settled, so also when it rejects.
connectWalletRejectedPersisting(i) ==
  /\ i \in DOMAIN tasks
  /\ tasks[i].pc = "connect"
  /\ tasks' = RemoveAt(tasks, i)
  /\ localStorage' = [localStorage EXCEPT ![ChainContext(tasks[i].chain)] = tasks[i].wallet]
  /\ last' = [op |-> "connectWallet", outcome |-> "error",
              lastUsedOutcome |-> LastUsedOutcome(tasks[i].kind, "error")]
  /\ UNCHANGED <<walletConnection, walletStore, listeners, resolverVars, dispatcherVars, parserVars>>

\* wallet.connect rejected: connectWallet throws at its await.
connectWalletRejected(i) ==
  /\ i \in DOMAIN tasks
  /\ tasks[i].pc = "connect"
  /\ tasks' = RemoveAt(tasks, i)
  /\ last' = [op |-> "connectWallet", outcome |-> "error",
              lastUsedOutcome |-> LastUsedOutcome(tasks[i].kind, "error")]
  /\ UNCHANGED <<walletConnection, walletStore, localStorage, listeners,
                 resolverVars, dispatcherVars, parserVars>>

\* The accountsChanged listener's test, against the address it captured.
shouldDisconnect(accs, address) ==
  Len(accs) = 0 \/ (Len(accs) # 0 /\ address # "" /\ accs[1] # address)

\* The wallet emits 'accountsChanged': every accountsChanged listener attached
\* to it runs, and each one that finds shouldDisconnect calls wallet.disconnect().
emitAccountsChanged(w, accs) ==
  /\ listeners[w] # <<>>
  /\ LET calling == {k \in DOMAIN listeners[w] :
                       shouldDisconnect(accs, listeners[w][k].address)}
     IN last' = [op |-> "accountsChanged", wallet |-> w, accs |-> accs,
                 disconnectCalls |-> Cardinality(calling)]
  /\ UNCHANGED <<walletConnection, walletStore, localStorage, listeners,
                 tasks, resolverVars, dispatcherVars, parserVars>>

\* The wallet emits 'disconnect' (after a disconnect() call, or because the user
\* disconnected from outside the app): every disconnect listener attached at
\* the time runs, each with the type and context its connectWallet call had.
emitDisconnect(w) ==
  /\ listeners[w] # <<>>
  /\ LET attached == {listeners[w][k] : k \in DOMAIN listeners[w]}
         types == {l.type : l \in attached}
         contexts == {l.context : l \in attached}
     IN /\ listeners' = [listeners EXCEPT ![w] = <<>>]
        /\ walletStore' = [r \in TransferWallet |->
                             IF r \in types THEN NoWallet ELSE walletStore[r]]
        /\ localStorage' = [c \in ContextNames |->
                              IF c \in contexts THEN undefined ELSE localStorage[c]]
        /\ last' = [op |-> "disconnectEvent", wallet |-> w, types |-> types,
                    contexts |-> contexts]
  /\ UNCHANGED <<walletConnection, tasks, resolverVars, dispatcherVars, parserVars>>

\* The swap written without the temporary.
swapWalletConnectionsNoTemp ==
  /\ walletConnection' = [walletConnection EXCEPT ![SENDING] = walletConnection[RECEIVING],
                                                   ![RECEIVING] = walletConnection[RECEIVING]]
  /\ last' = [op |-> "swapWalletConnections",
              trail |-> IF last.op = "swapWalletConnections"
                          THEN <<last.trail[Len(last.trail)], walletConnection>>
                          ELSE <<walletConnection>>]
  /\ UNCHANGED <<walletStore, localStorage, listeners, tasks, resolverVars, dispatcherVars, parserVars>>

swapWalletConnections ==
  /\ LET temp == walletConnection[SENDING]
     IN walletConnection' = [walletConnection EXCEPT ![SENDING] = walletConnection[RECEIVING],
                                                      ![RECEIVING] = temp]
  /\ last' = [op |-> "swapWalletConnections",
              trail |-> IF last.op = "swapWalletConnections"
                          THEN <<last.trail[Len(last.trail)], walletConnection>>
                          ELSE <<walletConnection>>]
  /\ UNCHANGED <<walletStore, localStorage, listeners,
                 tasks, resolverVars, dispatcherVars, parserVars>>

\* disconnect() called on the wallet of every role that has one.
disconnectEveryRole(type) ==
  /\ last' = [op |-> "disconnect", type |-> type,
              called |-> SelectSeq(<<walletConnection[SENDING], walletConnection[RECEIVING]>>,
                                   LAMBDA w : w # undefined)]
  /\ UNCHANGED <<walletConnection, walletStore, localStorage, listeners,
                 tasks, resolverVars, dispatcherVars, parserVars>>

\* disconnect(type): `called` lists the wallets whose disconnect() it calls.
disconnect(type) ==
  /\ LET w == walletConnection[type]
     IN IF w = undefined
          THEN last' = [op |-> "disconnect", type |-> type, called |-> <<>>]
          ELSE last' = [op |-> "disconnect", type |-> type, called |-> <<w>>]
  /\ UNCHANGED <<walletConnection, walletStore, localStorage, listeners,
                 tasks, resolverVars, dispatcherVars, parserVars>>

\* The test without its WalletConnect exclusion.
isReconnectableAnyName(lastUsedWallet) ==
  lastUsedWallet # undefined /\ lastUsedWallet # ""

\* The test connectLastUsedWallet makes of the persisted name it read.
isReconnectable(lastUsedWallet) ==
  lastUsedWallet # undefined /\ lastUsedWallet # "" /\ lastUsedWallet # "WalletConnect"

\* connectLastUsedWallet up to its await of getWalletOptions.
connectLastUsedWallet(type, chain) ==
  /\ chain \in ConfiguredChains
  /\ LET lastUsedWallet == localStorage[ChainContext(chain)]
     IN IF isReconnectable(lastUsedWallet)
          THEN /\ Len(tasks) < MaxTasks
               /\ tasks' = Append(tasks, [kind |-> "connectLastUsedWallet",
                                          pc |-> "options", type |-> type,
                                          chain |-> chain, wallet |-> undefined,
                                          lastUsed |-> lastUsedWallet])
               /\ last' = [op |-> "connectLastUsedWallet", lastUsedOutcome |-> "pending"]
          ELSE /\ tasks' = tasks
               /\ last' = [op |-> "connectLastUsedWallet", lastUsedOutcome |-> "ok"]
  /\ UNCHANGED <<walletConnection, walletStore, localStorage, listeners,
                 resolverVars, dispatcherVars, parserVars>>

\* getWalletOptions settled: on a rejection connectLastUsedWallet rejects; else
\* the option named like the persisted name, if any, is handed to connectWallet.
connectLastUsedWalletOptions(i, loaded) ==
  /\ i \in DOMAIN tasks
  /\ tasks[i].pc = "options"
  /\ LET t == tasks[i]
         found == {w \in getWalletOptions(ChainContext(t.chain)) : w = t.lastUsed}
     IN IF ~loaded
          THEN /\ tasks' = RemoveAt(tasks, i)
               /\ last' = [op |-> "connectLastUsedWallet",
                           lastUsedOutcome |-> AwaitUncaught("error")]
               /\ UNCHANGED registryVarsButTasks
          ELSE IF found = {}
            THEN /\ tasks' = RemoveAt(tasks, i)
                 /\ last' = [op |-> "connectLastUsedWallet", lastUsedOutcome |-> "ok"]
                 /\ UNCHANGED registryVarsButTasks
            ELSE \E w \in found :
                   /\ ListenerRoom
                   /\ connectWalletCall(t.type, t.chain, w, "connectLastUsedWallet",
                                        t.lastUsed, RemoveAt(tasks, i))
  /\ UNCHANGED <<resolverVars, dispatcherVars, parserVars>>

Registry ==
  \/ \E type \in TransferWallet, chain \in Chains, w \in Wallets :
        connectWallet(type, chain, w)
  \/ \E i \in 1..MaxTasks, a \in Addresses : connectWalletResolved(i, a)
  \/ \E i \in 1..MaxTasks : connectWalletRejected(i)
  \/ \E w \in Wallets, accs \in AccountLists : emitAccountsChanged(w, accs)
  \/ \E w \in Wallets : emitDisconnect(w)
  \/ swapWalletConnections
  \/ \E type \in TransferWallet : disconnect(type)
  \/ \E type \in TransferWallet, chain \in ConfiguredChains :
        connectLastUsedWallet(type, chain)
  \/ \E i \in 1..MaxTasks, loaded \in BOOLEAN : connectLastUsedWalletOptions(i, loaded)

Next == Registry

Spec == Init /\ [][Next]_vars

---------------------------------------------------------------------------
(* Claims about the registry, checked under Spec *)

\* The wallet was connected for role r and is still the wallet bound to r.
ConnectedFor(w, r) ==
  /\ walletConnection[r] = w
  /\ \E k \in DOMAIN listeners[w] : listeners[w][k].type = r

\* The address published by the latest successful connect of w for role r.
BoundAddress(w, r) ==
  LET ks == {k \in DOMAIN listeners[w] : listeners[w][k].type = r}
      k == CHOOSE x \in ks : \A y \in ks : y <= x
  IN listeners[w][k].address

\* C1: one swapWalletConnections call exchanges the bindings of the two roles,
\* whatever they are, and a second call right after it restores the bindings
\* held before the first.
C1_SwapExchangesAndRestores ==
  last.op = "swapWalletConnections" =>
    LET n == Len(last.trail)
        before == last.trail[n]
    IN /\ walletConnection[SENDING] = before[RECEIVING]
       /\ walletConnection[RECEIVING] = before[SENDING]
       /\ n = 2 => walletConnection = last.trail[1]

C1_Witness ==
  /\ last.op = "swapWalletConnections"
  /\ Len(last.trail) = 2
  /\ walletConnection[SENDING] # undefined
  /\ walletConnection[SENDING] # walletConnection[RECEIVING]

\* C2 (its count): an accountsChanged event with an empty account list, emitted
\* by a wallet connected for a role, makes exactly one disconnect call on it.
C2_EmptyAccountsOneDisconnect ==
  (/\ last.op = "accountsChanged"
   /\ last.accs = <<>>
   /\ \E r \in TransferWallet : ConnectedFor(last.wallet, r))
    => last.disconnectCalls = 1

\* C3: an accountsChanged event emitted by a wallet connected for a role calls
\* disconnect exactly when the account list is empty or its first account is
\* not the address bound for that role.
C3_DisconnectIffAccountDiffers ==
  last.op = "accountsChanged" =>
    \A r \in TransferWallet :
      ConnectedFor(last.wallet, r) =>
        (last.disconnectCalls > 0
           <=> (last.accs = <<>> \/ last.accs[1] # BoundAddress(last.wallet, r)))

\* C4: after a disconnect event of a wallet connected for a role, the wallet
\* has no listeners, the role is bound to no wallet, and the marker of the
\* context it was connected under is absent.
C4_DisconnectEventClearsBinding ==
  last.op = "disconnectEvent" =>
    /\ listeners[last.wallet] = <<>>
    /\ \A r \in last.types : walletConnection[r] # last.wallet
    /\ \A c \in last.contexts : localStorage[c] = undefined

\* C5: a step writes a name into a context's marker only if it is the
\* successful end of a connectWallet call for that context, the name being the
\* connected wallet's; after such an end the marker is that name; and a
\* connectWallet call that fails leaves every marker as it was.
C5_MarkerWrittenOnlyOnSuccess ==
  [][/\ \A c \in ContextNames :
          (localStorage'[c] # localStorage[c] /\ localStorage'[c] # undefined)
            => /\ last'.op = "connectWallet"
               /\ last'.outcome = "ok"
               /\ last'.context = c
               /\ last'.wallet = localStorage'[c]
     /\ (last'.op = "connectWallet" /\ last'.outcome = "ok")
          => localStorage'[last'.context] = last'.wallet
     /\ (last'.op = "connectWallet" /\ last'.outcome = "error")
          => localStorage' = localStorage]_vars

C5_Witness ==
  /\ last.op = "connectWallet"
  /\ last.outcome = "ok"
  /\ localStorage[last.context] = last.wallet

\* C6: connectLastUsedWallet goes on past reading the marker only with a name
\* that is present and not 'WalletConnect', the one it read; it calls
\* connectWallet only with the option of the chain's context named like it;
\* and a step of it that makes no connectWallet call changes no binding and
\* no marker and puts no connect call in flight.
C6_ReconnectOnlyFromUsableMarker ==
  [][/\ \A i \in DOMAIN tasks' :
          tasks'[i].kind = "connectLastUsedWallet"
            => /\ tasks'[i].lastUsed \notin {undefined, "", "WalletConnect"}
               /\ tasks'[i].pc = "connect"
                    => /\ tasks'[i].wallet = tasks'[i].lastUsed
                       /\ tasks'[i].wallet \in getWalletOptions(ChainContext(tasks'[i].chain))
     /\ (last'.op = "connectLastUsedWallet" /\ Len(tasks') > Len(tasks))
          => LET t == tasks'[Len(tasks')]
             IN t.pc = "options" /\ t.lastUsed = localStorage[ChainContext(t.chain)]
     /\ last'.op = "connectLastUsedWallet"
          => /\ walletConnection' = walletConnection
             /\ localStorage' = localStorage
             /\ Cardinality({i \in DOMAIN tasks' : tasks'[i].pc = "connect"})
                  <= Cardinality({i \in DOMAIN tasks : tasks[i].pc = "connect"})]_vars

C6_Witness ==
  \E i \in DOMAIN tasks :
    tasks[i].kind = "connectLastUsedWallet" /\ tasks[i].pc = "connect"

\* C7: connectLastUsedWallet never ends with an error raised to its caller.
C7_LastUsedNeverFails ==
  last.op \in {"connectWallet", "connectLastUsedWallet"}
    => last.lastUsedOutcome # "error"

---------------------------------------------------------------------------
(* Wrapped-token resolver *)

\* config.wrappedTokenAddressCache: a map keyed by (token key, chain).
CacheGet(c, key, chain) == IF <<key, chain>> \in DOMAIN c THEN c[<<key, chain>>] ELSE null

\* A write that rebuilds the map around the entry it sets.
CacheSetReplacing(c, key, chain, address) == [p \in {<<key, chain>>} |-> address]

CacheSet(c, key, chain, address) ==
  [p \in DOMAIN c \cup {<<key, chain>>} |-> IF p = <<key, chain>> THEN address ELSE c[p]]

\* What tb.getWrappedAsset answers for a token that has a wrapped asset on the
\* chain: the address is fixed by the bridge deployment.
WrappedAsset(key, chain) == "wrapped:" \o key \o "@" \o chain

\* The cache.set calls made after the live lookup returned `wrapped`, as the
\* set of the pairs written.
CacheWrites(key, chain, wrapped) == IF wrapped # null THEN {<<key, chain>>} ELSE {}

\* The address stored with the key's two parts exchanged.
CacheAfterLookupMiskeyed(c, key, chain, wrapped) ==
  IF wrapped # null THEN CacheSet(c, chain, key, wrapped) ELSE c

\* The lookup's answer written whether or not it is an address.
CacheAfterLookupWrittenAlways(c, key, chain, wrapped) == CacheSet(c, key, chain, wrapped)

\* The lookup's answer returned without being written to the cache.
CacheAfterLookupUnwritten(c, key, chain, wrapped) == c

\* The cache after the live lookup returned `wrapped`: written only if truthy.
CacheAfterLookup(c, key, chain, wrapped) ==
  IF wrapped # null THEN CacheSet(c, key, chain, wrapped) ELSE c

Finished(call, ret, live) ==
  [token |-> call.token, chain |-> call.chain, ret |-> ret, live |-> live,
   seen |-> call.seen]

\* getTokenBridgeWrappedTokenAddress up to its first await: a cache hit returns
\* at once, a miss goes on to getWormholeContextV2.
getTokenBridgeWrappedTokenAddress(token, chain) ==
  /\ Len(resolved) + Len(resolving) < MaxCalls
  /\ LET cached == CacheGet(cache, token.key, chain)
         call == [token |-> token.key, chain |-> chain, seen |-> Len(resolved)]
     IN IF cached # null
          THEN /\ resolved' = Append(resolved, Finished(call, cached, 0))
               /\ UNCHANGED resolving
          ELSE /\ resolving' = Append(resolving, [token |-> token.key, chain |-> chain,
                                                  seen |-> Len(resolved),
                                                  pc |-> "getWormholeContextV2"])
               /\ UNCHANGED resolved
  /\ last' = [op |-> "getTokenBridgeWrappedTokenAddress", wrote |-> {}]
  /\ UNCHANGED <<cache, registryVars, dispatcherVars, parserVars>>

\* getWormholeContextV2 settled; wh.getChain and the await of getTokenBridge follow.
resolveContext(i, ok) ==
  /\ i \in DOMAIN resolving
  /\ resolving[i].pc = "getWormholeContextV2"
  /\ IF ok
       THEN /\ resolving' = [resolving EXCEPT ![i].pc = "getTokenBridge"]
            /\ UNCHANGED resolved
       ELSE /\ resolving' = RemoveAt(resolving, i)
            /\ resolved' = Append(resolved, Finished(resolving[i], thrown, 0))
  /\ last' = [op |-> "getTokenBridgeWrappedTokenAddress", wrote |-> {}]
  /\ UNCHANGED <<cache, registryVars, dispatcherVars, parserVars>>

\* getTokenBridge settled; toTokenIdV2 runs, then the live lookup is issued.
resolveTokenBridge(i, ok) ==
  /\ i \in DOMAIN resolving
  /\ resolving[i].pc = "getTokenBridge"
  /\ IF ok
       THEN /\ resolving' = [resolving EXCEPT ![i].pc = "getWrappedAsset"]
            /\ UNCHANGED resolved
       ELSE /\ resolving' = RemoveAt(resolving, i)
            /\ resolved' = Append(resolved, Finished(resolving[i], thrown, 0))
  /\ last' = [op |-> "getTokenBridgeWrappedTokenAddress", wrote |-> {}]
  /\ UNCHANGED <<cache, registryVars, dispatcherVars, parserVars>>

\* tb.getWrappedAsset settled, inside the try block.
resolveWrappedAsset(i, answer) ==
  /\ i \in DOMAIN resolving
  /\ resolving[i].pc = "getWrappedAsset"
  /\ LET call == resolving[i]
         wrapped == IF answer = "address" THEN WrappedAsset(call.token, call.chain)
                    ELSE null
     IN IF answer = "rejected"
          THEN /\ resolved' = Append(resolved, Finished(call, null, 1))
               /\ UNCHANGED cache
          ELSE /\ cache' = CacheAfterLookup(cache, call.token, call.chain, wrapped)
               /\ resolved' = Append(resolved, Finished(call, wrapped, 1))
  /\ resolving' = RemoveAt(resolving, i)
  /\ last' = [op |-> "getTokenBridgeWrappedTokenAddress",
              wrote |-> IF answer = "rejected" THEN {}
                        ELSE CacheWrites(resolving[i].token, resolving[i].chain,
                                         IF answer = "address"
                                           THEN WrappedAsset(resolving[i].token, resolving[i].chain)
                                           ELSE null)]
  /\ UNCHANGED <<registryVars, dispatcherVars, parserVars>>

\* The synchronous variant filling the cache itself on a miss.
getTokenBridgeWrappedTokenAddressSyncFilling(token, chain) ==
  /\ last' = [op |-> "getTokenBridgeWrappedTokenAddressSync", token |-> token.key,
              chain |-> chain, ret |-> CacheGet(cache, token.key, chain)]
  /\ cache' = IF CacheGet(cache, token.key, chain) = null
                THEN CacheSet(cache, token.key, chain, WrappedAsset(token.key, chain))
                ELSE cache
  /\ UNCHANGED <<resolving, resolved, registryVars, dispatcherVars, parserVars>>

getTokenBridgeWrappedTokenAddressSync(token, chain) ==
  /\ last' = [op |-> "getTokenBridgeWrappedTokenAddressSync", token |-> token.key,
              chain |-> chain, ret |-> CacheGet(cache, token.key, chain)]
  /\ UNCHANGED <<resolverVars, registryVars, dispatcherVars, parserVars>>

Resolver ==
  \/ \E token \in Tokens, chain \in ResolverChains :
        getTokenBridgeWrappedTokenAddress(token, chain)
  \/ \E i \in 1..MaxCalls, ok \in BOOLEAN : resolveContext(i, ok)
  \/ \E i \in 1..MaxCalls, ok \in BOOLEAN : resolveTokenBridge(i, ok)
  \/ \E i \in 1..MaxCalls, answer \in {"address", "none", "rejected"} :
        resolveWrappedAsset(i, answer)
  \/ \E token \in Tokens, chain \in ResolverChains :
        getTokenBridgeWrappedTokenAddressSync(token, chain)

ResolverSpec == Init /\ [][Resolver]_vars

---------------------------------------------------------------------------
(* Claims about the resolver, checked under ResolverSpec *)

\* Completed call j was started after completed call i had returned, for the
\* same token and chain.
Sequential(i, j) ==
  /\ i <= resolved[j].seen
  /\ resolved[i].token = resolved[j].token
  /\ resolved[i].chain = resolved[j].chain

IsAddress(ret) == ret # null /\ ret # thrown

\* C8 as stated, for two calls that return and the first of which missed the
\* cache: any two sequential calls for a token and chain make exactly one live
\* lookup between them and return the same value.
C8_TwoCallsOneLookup ==
  \A i, j \in DOMAIN resolved :
    (/\ Sequential(i, j)
     /\ resolved[i].live = 1
     /\ resolved[i].ret # thrown
     /\ resolved[j].ret # thrown)
      => /\ resolved[i].live + resolved[j].live = 1
         /\ resolved[j].ret = resolved[i].ret

\* C8 amended: when the first of two sequential calls returns an address, the
\* second makes no live lookup and returns that address, so that a first call
\* that missed the cache makes the only live lookup of the two.
C8_SecondCallServedFromCache ==
  \A i, j \in DOMAIN resolved :
    (Sequential(i, j) /\ IsAddress(resolved[i].ret))
      => /\ resolved[j].live = 0
         /\ resolved[j].ret = resolved[i].ret
         /\ resolved[i].live + resolved[j].live <= 1

C8_Witness ==
  \E i, j \in DOMAIN resolved :
    /\ Sequential(i, j)
    /\ resolved[i].live = 1
    /\ IsAddress(resolved[i].ret)
    /\ resolved[j].live = 0
    /\ resolved[j].ret = resolved[i].ret

\* C9: no call of getTokenBridgeWrappedTokenAddress ends by throwing.
C9_ResolverNeverThrows ==
  \A i \in DOMAIN resolved : resolved[i].ret # thrown

\* C10: the synchronous variant returns the address the cache holds for the
\* token key and chain, or null when it holds none, starts no call and no
\* lookup, and leaves the cache as it was.
C10_SyncReadsCacheOnly ==
  [][last'.op = "getTokenBridgeWrappedTokenAddressSync"
       => /\ cache' = cache
          /\ resolving' = resolving
          /\ resolved' = resolved
          /\ LET pair == <<last'.token, last'.chain>>
             IN last'.ret = IF pair \in DOMAIN cache THEN cache[pair] ELSE null]_vars

C10_Witness ==
  /\ last.op = "getTokenBridgeWrappedTokenAddressSync"
  /\ last.ret # null
  /\ <<last.token, last.chain>> \in DOMAIN cache

\* C12 as stated: a step of the resolver writes a cache entry only if the
\* cache does not hold that entry yet, so that each entry is written at most
\* once, also by two calls for one pair in flight at the same time.
C12_EntryWrittenAtMostOnce ==
  [][last'.op = "getTokenBridgeWrappedTokenAddress"
       => \A p \in last'.wrote : p \notin DOMAIN cache]_vars

\* C12 amended: a call writes at most one entry, the one of its own pair, and
\* a write to an entry the cache already holds stores the address it holds, so
\* that the entry's address is set once however many calls write it.
C12_RewriteStoresSameAddress ==
  [][last'.op = "getTokenBridgeWrappedTokenAddress"
       => /\ Cardinality(last'.wrote) <= 1
          /\ \A p \in last'.wrote :
               /\ p \in DOMAIN cache'
               /\ p \in DOMAIN cache => cache'[p] = cache[p]]_vars

\* Two calls for one pair were in flight together, and each made the live
\* lookup, got the address and wrote it.
C12_Witness ==
  \E i, j \in DOMAIN resolved :
    /\ i < j
    /\ resolved[j].seen < i
    /\ resolved[i].token = resolved[j].token
    /\ resolved[i].chain = resolved[j].chain
    /\ resolved[i].live = 1 /\ IsAddress(resolved[i].ret)
    /\ resolved[j].live = 1 /\ IsAddress(resolved[j].ret)

---------------------------------------------------------------------------
(* Chain dispatcher *)

\* Transaction ids an adapter may produce.
TxIds == {"tx1", "tx2"}

\* Errors an adapter routine may reject with.
AdapterErrors == {"NotSupported", "Rejected"}

\* What w.getAddress() answers.
getAddress(w) == "address of " \o w

\* The evm adapter taken for every context but COSMOS.
SwitchAdapterEvmByDefault(context) == IF context = "COSMOS" THEN "cosmos" ELSE "evm"

\* The adapter module switchChain imports for a context ("none": no branch).
SwitchAdapter(context) ==
  IF context = "ETH" THEN "evm" ELSE IF context = "COSMOS" THEN "cosmos" ELSE "none"

\* The APTOS branch importing the sui adapter.
SignAdapterSuiForAptos(context) ==
  CASE context = "ETH" -> "evm"
    [] context = "SOLANA" -> "solana"
    [] context \in {"SUI", "APTOS"} -> "sui"
    [] OTHER -> "none"

\* A COSMOS branch added to the dispatch.
SignAdapterWithCosmos(context) ==
  CASE context = "ETH" -> "evm"
    [] context = "SOLANA" -> "solana"
    [] context = "SUI" -> "sui"
    [] context = "APTOS" -> "aptos"
    [] context = "COSMOS" -> "cosmos"
    [] OTHER -> "none"

\* The binding never found missing.
WalletMissingNever(wallet) == FALSE

\* signAndSendTransaction's test of the binding it read.
WalletMissing(wallet) == wallet = undefined

\* The adapter module signAndSendTransaction imports for a context.
SignAdapter(context) ==
  CASE context = "ETH" -> "evm"
    [] context = "SOLANA" -> "solana"
    [] context = "SUI" -> "sui"
    [] context = "APTOS" -> "aptos"
    [] OTHER -> "none"

\* What an adapter's signAndSendTransaction resolves with for transaction id
\* `id`: the evm and solana adapters the id itself, sui and aptos a response
\* object that carries it.
AdapterTx(adapter, id) ==
  IF adapter \in {"sui", "aptos"} THEN [id |-> id, digest |-> "digest of " \o id] ELSE id

\* What signAndSendTransaction returns of the adapter's answer.
SignReturn(context, tx) ==
  IF context \in {"SUI", "APTOS"} THEN tx.id ELSE tx

\* How switchChain ends when its adapter's routine rejects with `error`: only
\* the ETH branch is inside the try block whose catch swallows NotSupported.
SwitchCatch(context, error) ==
  IF context = "ETH" /\ error = "NotSupported" THEN "return" ELSE "throw"

\* The wallet after its adapter's switch routine resolved.
AdapterSwitched(wc, w, chain) == [wc EXCEPT ![w] = chain]

\* An import() that loads the module again whether or not it was loaded.
ImportedAnew(loads, adapter) == [loads EXCEPT ![adapter] = @ + 1]

\* The module loads after an import() of `adapter` resolved: the module is
\* loaded by the first import() of it, and later ones get the loaded module.
Imported(loads, adapter) ==
  IF loads[adapter] > 0 THEN loads ELSE [loads EXCEPT ![adapter] = 1]

\* A dispatcher call suspended on the import of its adapter module.
Importing(kind, type, chain, w, adapter) ==
  [kind |-> kind, pc |-> "import", type |-> type, chain |-> chain, wallet |-> w,
   current |-> IF w = undefined THEN undefined ELSE walletChain[w],
   adapter |-> adapter, imports |-> <<adapter>>, calls |-> <<>>]

\* A dispatcher call that ends before importing anything.
Direct(kind, type, chain, w) ==
  [kind |-> kind, pc |-> "return", type |-> type, chain |-> chain, wallet |-> w,
   current |-> IF w = undefined THEN undefined ELSE walletChain[w],
   adapter |-> "none", imports |-> <<>>, calls |-> <<>>]

\* The record of a completed dispatcher call: how it ended, the modules it
\* imported, the adapter calls it made and how the adapter's routine settled.
Done(call, outcome, ret, error, settled) ==
  [op |-> call.kind, type |-> call.type, chain |-> call.chain, wallet |-> call.wallet,
   current |-> call.current, outcome |-> outcome, ret |-> ret, error |-> error,
   imports |-> call.imports, calls |-> call.calls, settled |-> settled]

Pending(kind) == [op |-> kind, outcome |-> "pending"]

\* switchChain up to its first await.
switchChain(chainId, type) ==
  /\ Len(dispatching) < MaxDispatching
  /\ LET w == walletConnection[type]
         context == ChainContext(chainId)
         adapter == SwitchAdapter(context)
         direct == Direct("switchChain", type, chainId, w)
     IN IF w = undefined
          THEN /\ last' = Done(direct, "error", undefined, "must connect wallet", "none")
               /\ UNCHANGED dispatching
          ELSE IF walletChain[w] = chainId
            THEN /\ last' = Done(direct, "ok", undefined, "none", "none")
                 /\ UNCHANGED dispatching
            ELSE IF adapter # "none"
              THEN /\ dispatching' = Append(dispatching,
                                            Importing("switchChain", type, chainId, w, adapter))
                   /\ last' = Pending("switchChain")
              ELSE /\ last' = Done(direct, "ok", getAddress(w), "none", "none")
                   /\ UNCHANGED dispatching
  /\ UNCHANGED <<adapters, walletChain, registryVars, resolverVars, parserVars>>

\* signAndSendTransaction up to its first await.
signAndSendTransaction(chain, walletType) ==
  /\ Len(dispatching) < MaxDispatching
  /\ LET wallet == walletConnection[walletType]
         adapter == SignAdapter(ChainContext(chain))
         direct == Direct("signAndSendTransaction", walletType, chain, wallet)
     IN IF WalletMissing(wallet)
          THEN /\ last' = Done(direct, "error", undefined, "wallet is undefined", "none")
               /\ UNCHANGED dispatching
          ELSE IF adapter # "none"
            THEN /\ dispatching' = Append(dispatching,
                                          Importing("signAndSendTransaction", walletType,
                                                    chain, wallet, adapter))
                 /\ last' = Pending("signAndSendTransaction")
            ELSE /\ last' = Done(direct, "error", undefined, "unimplemented", "none")
                 /\ UNCHANGED dispatching
  /\ UNCHANGED <<adapters, walletChain, registryVars, resolverVars, parserVars>>

\* watchAsset up to its await of the import: the binding is not checked.
watchAsset(type) ==
  /\ Len(dispatching) < MaxDispatching
  /\ dispatching' = Append(dispatching,
                           Importing("watchAsset", type, undefined,
                                     walletConnection[type], "evm"))
  /\ last' = Pending("watchAsset")
  /\ UNCHANGED <<adapters, walletChain, registryVars, resolverVars, parserVars>>

\* The import of the adapter module settled.  A module imported before is
\* served from the module cache; a first import may fail.  On success the
\* adapter's routine is called with the wallet the call read from its binding.
adapterImported(i, ok) ==
  /\ i \in DOMAIN dispatching
  /\ dispatching[i].pc = "import"
  /\ ok \/ adapters[dispatching[i].adapter] = 0
  /\ LET call == dispatching[i]
     IN IF ok
          THEN /\ adapters' = Imported(adapters, call.adapter)
               /\ dispatching' = [dispatching EXCEPT ![i].pc = "adapter",
                                    ![i].calls = Append(@, [adapter |-> call.adapter,
                                                            routine |-> call.kind,
                                                            wallet |-> call.wallet])]
               /\ last' = Pending(call.kind)
          ELSE /\ dispatching' = RemoveAt(dispatching, i)
               /\ last' = Done(call, "error", undefined, "import failed", "none")
               /\ UNCHANGED adapters
  /\ UNCHANGED <<walletChain, registryVars, resolverVars, parserVars>>

\* The adapter's switchChain settled.
switchChainSettled(i, result) ==
  /\ i \in DOMAIN dispatching
  /\ dispatching[i].kind = "switchChain"
  /\ dispatching[i].pc = "adapter"
  /\ LET call == dispatching[i]
         context == ChainContext(call.chain)
     IN IF result = "ok"
          THEN /\ walletChain' = AdapterSwitched(walletChain, call.wallet, call.chain)
               /\ last' = Done(call, "ok", getAddress(call.wallet), "none", result)
          ELSE /\ last' = IF SwitchCatch(context, result) = "return"
                            THEN Done(call, "ok", undefined, "none", result)
                            ELSE Done(call, "error", undefined, result, result)
               /\ UNCHANGED walletChain
  /\ dispatching' = RemoveAt(dispatching, i)
  /\ UNCHANGED <<adapters, registryVars, resolverVars, parserVars>>

\* The adapter's signAndSendTransaction settled, with transaction id `id` when
\* it resolved.
signAndSendTransactionSettled(i, result, id) ==
  /\ i \in DOMAIN dispatching
  /\ dispatching[i].kind = "signAndSendTransaction"
  /\ dispatching[i].pc = "adapter"
  /\ LET call == dispatching[i]
     IN last' = IF result = "ok"
                  THEN Done(call, "ok",
                            SignReturn(ChainContext(call.chain), AdapterTx(call.adapter, id)),
                            "none", id)
                  ELSE Done(call, "error", undefined, AwaitUncaught(result), result)
  /\ dispatching' = RemoveAt(dispatching, i)
  /\ UNCHANGED <<adapters, walletChain, registryVars, resolverVars, parserVars>>

\* The evm adapter's watchAsset settled.
watchAssetSettled(i, result) ==
  /\ i \in DOMAIN dispatching
  /\ dispatching[i].kind = "watchAsset"
  /\ dispatching[i].pc = "adapter"
  /\ last' = IF result = "ok"
               THEN Done(dispatching[i], "ok", undefined, "none", result)
               ELSE Done(dispatching[i], "error", undefined, result, result)
  /\ dispatching' = RemoveAt(dispatching, i)
  /\ UNCHANGED <<adapters, walletChain, registryVars, resolverVars, parserVars>>

Dispatcher ==
  \/ \E chainId \in DispatchChains, type \in TransferWallet : switchChain(chainId, type)
  \/ \E chain \in DispatchChains, type \in TransferWallet :
        signAndSendTransaction(chain, type)
  \/ \E type \in TransferWallet : watchAsset(type)
  \/ \E i \in 1..MaxDispatching, ok \in BOOLEAN : adapterImported(i, ok)
  \/ \E i \in 1..MaxDispatching, result \in {"ok"} \cup AdapterErrors :
        switchChainSettled(i, result)
  \/ \E i \in 1..MaxDispatching, result \in {"ok"} \cup AdapterErrors, id \in TxIds :
        signAndSendTransactionSettled(i, result, id)
  \/ \E i \in 1..MaxDispatching, result \in {"ok"} \cup AdapterErrors :
        watchAssetSettled(i, result)
  \/ \E type \in TransferWallet : disconnect(type)

\* A call of the exported setWalletConnection: the role is bound to the wallet,
\* with no handshake, no listener and no marker.
setWalletConnectionCall(type, wallet) ==
  /\ walletConnection' = setWalletConnection(walletConnection, type, wallet)
  /\ last' = [op |-> "setWalletConnection"]
  /\ UNCHANGED <<walletStore, localStorage, listeners, tasks, resolverVars, dispatcherVars, parserVars>>

\* The dispatcher with the registry operations that change the bindings it
\* reads.
DispatcherNext ==
  \/ Dispatcher
  \/ \E type \in TransferWallet, w \in Wallets : setWalletConnectionCall(type, w)
  \/ swapWalletConnections

DispatcherSpec == Init /\ [][DispatcherNext]_vars

\* The resolver together with registry and dispatcher operations: calls of the
\* resolver for the tokens on one chain, a role bound, swapped and
\* disconnected, and transactions signed and sent for it.
CacheNext ==
  \/ \E token \in Tokens : getTokenBridgeWrappedTokenAddress(token, "Solana")
  \/ \E i \in 1..MaxCalls, ok \in BOOLEAN : resolveContext(i, ok)
  \/ \E i \in 1..MaxCalls, ok \in BOOLEAN : resolveTokenBridge(i, ok)
  \/ \E i \in 1..MaxCalls, answer \in {"address", "none", "rejected"} :
        resolveWrappedAsset(i, answer)
  \/ setWalletConnectionCall(SENDING, "MetaMask")
  \/ swapWalletConnections
  \/ disconnect(SENDING)
  \/ signAndSendTransaction("Ethereum", SENDING)
  \/ \E i \in 1..MaxDispatching, ok \in BOOLEAN : adapterImported(i, ok)
  \/ \E i \in 1..MaxDispatching, result \in {"ok", "Rejected"} :
        signAndSendTransactionSettled(i, result, "tx1")

CacheSpec == Init /\ [][CacheNext]_vars

---------------------------------------------------------------------------
(* Claims about the dispatcher, checked under DispatcherSpec *)

\* The last step completed a call of dispatcher operation `op`.
Completed(op) == last.op = op /\ last.outcome # "pending"

\* C13: a switchChain call for a role whose wallet already reports the
\* requested chain imports and calls no adapter and returns the wallet's address.
C13_AlreadyOnChainReturnsAddress ==
  (/\ Completed("switchChain")
   /\ last.wallet # undefined
   /\ last.current = last.chain)
    => /\ last.imports = <<>>
       /\ last.calls = <<>>
       /\ last.outcome = "ok"
       /\ last.ret = getAddress(last.wallet)

\* C14: a switchChain call whose adapter's switch routine rejected with
\* NotSupported completes without error, in the ETH and in the COSMOS context.
C14_NotSupportedIsSuccess ==
  (Completed("switchChain") /\ last.settled = "NotSupported") => last.outcome = "ok"

\* The adapter module of a context in which switchChain delegates.
SwitchDelegate(context) ==
  CASE context = "ETH" -> "evm" [] context = "COSMOS" -> "cosmos" [] OTHER -> "none"

\* C15: a switchChain call whose wallet is not on the target chain imports and
\* calls an adapter only in the ETH and COSMOS contexts, and only the adapter of
\* the target's context, once; in every other context it imports and calls no
\* adapter and completes successfully.
C15_SwitchDelegatesOnlyEthCosmos ==
  /\ \A i \in DOMAIN dispatching :
       dispatching[i].kind = "switchChain"
         => LET delegate == SwitchDelegate(ChainContext(dispatching[i].chain))
            IN /\ delegate # "none"
               /\ dispatching[i].imports = <<delegate>>
               /\ \A k \in DOMAIN dispatching[i].calls :
                    k = 1 /\ dispatching[i].calls[k].adapter = delegate
  /\ (/\ Completed("switchChain")
      /\ last.wallet # undefined
      /\ last.current # last.chain)
       => LET delegate == SwitchDelegate(ChainContext(last.chain))
          IN IF delegate = "none"
               THEN last.imports = <<>> /\ last.calls = <<>> /\ last.outcome = "ok"
               ELSE /\ last.imports = <<delegate>>
                    /\ \A k \in DOMAIN last.calls :
                         /\ k = 1
                         /\ last.calls[k].adapter = delegate
                         /\ last.calls[k].routine = "switchChain"

C15_Witness ==
  /\ Completed("switchChain")
  /\ last.outcome = "ok"
  /\ ChainContext(last.chain) = "COSMOS"
  /\ last.current # last.chain
  /\ Len(last.calls) = 1
  /\ adapters["evm"] > 0

\* C16: a signAndSendTransaction call for a role with no bound wallet fails
\* with the wallet-not-connected error whatever the chain's context, having
\* imported and called no adapter.
C16_NoWalletFailsBeforeAnyAdapter ==
  /\ \A i \in DOMAIN dispatching :
       dispatching[i].kind = "signAndSendTransaction" => dispatching[i].wallet # undefined
  /\ (Completed("signAndSendTransaction") /\ last.wallet = undefined)
       => /\ last.outcome = "error"
          /\ last.error = "wallet is undefined"
          /\ last.imports = <<>>
          /\ last.calls = <<>>

C16_Witness ==
  /\ Completed("signAndSendTransaction")
  /\ last.wallet = undefined
  /\ ChainContext(last.chain) = "SUI"
  /\ last.error = "wallet is undefined"

\* The contexts signAndSendTransaction supports, each with its adapter module.
SignDelegate(context) ==
  CASE context = "ETH" -> "evm"
    [] context = "SOLANA" -> "solana"
    [] context = "SUI" -> "sui"
    [] context = "APTOS" -> "aptos"
    [] OTHER -> "none"

\* C17: a signAndSendTransaction call with a bound wallet for an ETH, SOLANA,
\* SUI or APTOS chain imports the adapter of that context only, calls its
\* routine at most once, with the wallet bound to the role, and a call that
\* returns has made that one call and returns the id the adapter produced.
C17_SignDelegatesToMatchingAdapter ==
  /\ \A i \in DOMAIN dispatching :
       dispatching[i].kind = "signAndSendTransaction"
         => LET call == dispatching[i]
                delegate == SignDelegate(ChainContext(call.chain))
            IN /\ call.imports = <<delegate>>
               /\ \A k \in DOMAIN call.calls :
                    call.calls[k] = [adapter |-> delegate,
                                     routine |-> "signAndSendTransaction",
                                     wallet |-> call.wallet]
               /\ Len(call.calls) = IF call.pc = "adapter" THEN 1 ELSE 0
  /\ (/\ Completed("signAndSendTransaction")
      /\ last.wallet # undefined
      /\ SignDelegate(ChainContext(last.chain)) # "none")
       => LET delegate == SignDelegate(ChainContext(last.chain))
          IN /\ last.imports = <<delegate>>
             /\ last.outcome = "ok"
                  => /\ last.calls = <<[adapter |-> delegate,
                                        routine |-> "signAndSendTransaction",
                                        wallet |-> last.wallet]>>
                     /\ last.settled \in TxIds
                     /\ last.ret = last.settled
             /\ last.settled \in TxIds => last.outcome = "ok"

C17_Witness ==
  /\ Completed("signAndSendTransaction")
  /\ last.outcome = "ok"
  /\ ChainContext(last.chain) = "APTOS"
  /\ last.ret \in TxIds
  /\ walletConnection[last.type] # last.wallet

\* C18: a signAndSendTransaction call with a bound wallet for a chain of the
\* COSMOS context, or of any context other than ETH, SOLANA, SUI and APTOS,
\* fails with the unimplemented error, having imported and called no adapter.
C18_OtherContextsUnimplemented ==
  /\ \A i \in DOMAIN dispatching :
       dispatching[i].kind = "signAndSendTransaction"
         => ChainContext(dispatching[i].chain) \in {"ETH", "SOLANA", "SUI", "APTOS"}
  /\ (/\ Completed("signAndSendTransaction")
      /\ last.wallet # undefined
      /\ ChainContext(last.chain) \notin {"ETH", "SOLANA", "SUI", "APTOS"})
       => /\ last.outcome = "error"
          /\ last.error = "unimplemented"
          /\ last.imports = <<>>
          /\ last.calls = <<>>

C18_Witness ==
  /\ Completed("signAndSendTransaction")
  /\ last.wallet # undefined
  /\ ChainContext(last.chain) = "COSMOS"
  /\ last.error = "unimplemented"

\* C19: a signAndSendTransaction call whose adapter's routine rejected fails
\* with the error the adapter rejected with, and no step of a
\* signAndSendTransaction call changes a binding, a marker or the cache.
C19_AdapterFailurePropagates ==
  [][/\ (/\ last'.op = "signAndSendTransaction"
         /\ last'.outcome # "pending"
         /\ last'.settled \in AdapterErrors)
          => /\ last'.outcome = "error"
             /\ last'.error = last'.settled
     /\ last'.op = "signAndSendTransaction"
          => /\ walletConnection' = walletConnection
             /\ walletStore' = walletStore
             /\ localStorage' = localStorage
             /\ cache' = cache]_vars

C19_Witness ==
  /\ Completed("signAndSendTransaction")
  /\ last.outcome = "error"
  /\ last.settled = "Rejected"
  /\ last.error = "Rejected"
  /\ walletConnection[last.type] = last.wallet

---------------------------------------------------------------------------
(* Claims about disconnect, checked under Spec *)

\* C20: a step of disconnect(role) changes no state; when the role has no
\* binding it calls no wallet, and otherwise it calls the disconnect routine of
\* the wallet bound to the role, once, and of no other wallet.
C20_DisconnectCallsBoundWalletOnly ==
  [][last'.op = "disconnect"
       => /\ UNCHANGED <<registryVars, resolverVars, dispatcherVars, parserVars>>
          /\ last'.called = IF walletConnection[last'.type] = undefined THEN <<>>
                            ELSE <<walletConnection[last'.type]>>]_vars

C20_Witness ==
  /\ last.op = "disconnect"
  /\ last.called = <<walletConnection[last.type]>>
  /\ \A r \in TransferWallet : walletConnection[r] # undefined
  /\ walletConnection[SENDING] # walletConnection[RECEIVING]

---------------------------------------------------------------------------
(* Claims about the cache under operations of all three parts, checked
   under CacheSpec *)

\* C11: once the cache holds an address for a token key and chain, every step
\* of the resolver, the registry and the dispatcher leaves that entry in the
\* cache with the same address.
C11_CacheEntriesNeverChange ==
  [][\A p \in DOMAIN cache : p \in DOMAIN cache' /\ cache'[p] = cache[p]]_vars

\* The cache holds two entries, a later call for a cached pair has completed,
\* the bound role has been swapped and a transaction has been sent since.
C11_Witness ==
  /\ Cardinality(DOMAIN cache) >= 2
  /\ \E i, j \in DOMAIN resolved :
       i < j /\ Sequential(i, j) /\ IsAddress(resolved[i].ret)
  /\ walletConnection[RECEIVING] = "MetaMask"
  /\ Completed("signAndSendTransaction")
  /\ last.outcome = "ok"

---------------------------------------------------------------------------
(* Receipt normalizer: configuration, conversions and receipts *)

\* config.tokensArr, in array order, as far as the parsers read it.
tokensArr ==
  << [key |-> "WETH", symbol |-> "WETH", nativeChain |-> "Ethereum",
      address |-> "0xweth", decimals |-> 18],
     [key |-> "USDCeth", symbol |-> "USDC", nativeChain |-> "Ethereum",
      address |-> "0xusdc", decimals |-> 6],
     [key |-> "USDCsol", symbol |-> "USDC", nativeChain |-> "Solana",
      address |-> "solusdc", decimals |-> 6] >>

\* Wormhole.tokenId(chain, address)
TokenId(chain, address) == [chain |-> chain, address |-> address]

\* The records of a token list that a token id names, in list order.
Matching(tokenId, tokens) ==
  {k \in DOMAIN tokens : /\ tokens[k].nativeChain = tokenId.chain
                         /\ tokens[k].address = tokenId.address}

\* config.sdkConverter.findTokenConfigV1(tokenId, tokens): the first record the
\* token id names, as a one-element sequence, or the empty sequence.
findTokenConfigV1(tokenId, tokens) ==
  LET ks == Matching(tokenId, tokens)
  IN IF ks = {} THEN <<>>
     ELSE <<tokens[CHOOSE k \in ks : \A j \in ks : k <= j]>>

\* getTokenDecimals(chain, getWrappedTokenId(token)): the token's decimals on
\* the chain.
getTokenDecimals(chain, token) == token.decimals

\* Universal (wire) addresses and the native address each one encodes.
UniversalAddresses ==
  {"u:0xweth", "u:0xusdc", "u:solusdc", "u:0xdead", "u:alice", "u:bob", "u:ata"}

\* address.toNative(chain).toString()
toNative(universal) ==
  CASE universal = "u:0xweth" -> "0xweth"
    [] universal = "u:0xusdc" -> "0xusdc"
    [] universal = "u:solusdc" -> "solusdc"
    [] universal = "u:0xdead" -> "0xdead"
    [] universal = "u:alice" -> "alice"
    [] universal = "u:bob" -> "bob"
    [] OTHER -> "ata"

\* account.owner.toBase58() of the token account splToken.getAccount found.
OwnerOf(ata) == "owner of " \o ata

DigitChar(d) ==
  CASE d = 0 -> "0" [] d = 1 -> "1" [] d = 2 -> "2" [] d = 3 -> "3" [] d = 4 -> "4"
    [] d = 5 -> "5" [] d = 6 -> "6" [] d = 7 -> "7" [] d = 8 -> "8" [] OTHER -> "9"

\* The string of a sequence of decimal digits.
RECURSIVE DigitString(_)
DigitString(digits) ==
  IF digits = <<>> THEN "" ELSE DigitChar(Head(digits)) \o DigitString(Tail(digits))

Zeros(n) == [k \in 1..n |-> 0]

RECURSIVE StripTrailingZeros(_)
StripTrailingZeros(digits) ==
  IF digits # <<>> /\ digits[Len(digits)] = 0
    THEN StripTrailingZeros(SubSeq(digits, 1, Len(digits) - 1))
    ELSE digits

\* amount.display({amount, decimals}): the integer whose decimal digits are
\* `digits`, scaled down by 10^decimals, as a decimal string without trailing
\* zeros.
Display(digits, decimals) ==
  LET padded == IF Len(digits) > decimals THEN digits
                ELSE Zeros(decimals + 1 - Len(digits)) \o digits
      n == Len(padded)
      whole == SubSeq(padded, 1, n - decimals)
      partial == StripTrailingZeros(SubSeq(padded, n - decimals + 1, n))
  IN IF partial = <<>> THEN DigitString(whole)
     ELSE DigitString(whole) \o "." \o DigitString(partial)

\* Number(amount.fmt(value, decimals)), written as the number prints.
FmtNumber(digits, decimals) == Display(digits, decimals)

Min(a, b) == IF a < b THEN a ELSE b

\* The precision taken as the token's own decimals.
DisplayDecimalsUncapped(decimals) == decimals

\* The precision of a token-bridge amount: VAAs are truncated to 8 decimals.
DisplayDecimals(decimals) == Min(8, decimals)

\* Wire amounts, as the digits of amount.toString().
WireAmounts == {<<1, 5, 0, 0, 0, 0, 0, 0, 0>>, <<1, 2, 3, 4, 5, 6, 7, 8, 9>>, <<5>>}

\* The origin transactions of a receipt: the field absent (a receipt state
\* before the source transaction), empty, or holding one or two transactions.
OriginOptions ==
  {[has |-> FALSE, txs |-> <<>>], [has |-> TRUE, txs |-> <<>>],
   [has |-> TRUE, txs |-> <<[txid |-> "txA"]>>],
   [has |-> TRUE, txs |-> <<[txid |-> "txA"], [txid |-> "txB"]>>]}

Absent == [present |-> FALSE]

\* payload.token of a token-bridge VAA.
PayloadTokens ==
  {Absent} \cup
  {[present |-> TRUE, chain |-> "Ethereum", address |-> a, amount |-> n] :
     a \in {"u:0xweth", "u:0xusdc", "u:0xdead"}, n \in WireAmounts}

\* payload.to of a token-bridge VAA.
PayloadDestinations == {Absent, [present |-> TRUE, address |-> "u:ata"]}

\* payload.payload of a token-bridge VAA: the automatic relayer's fields.
RelayPayloads ==
  {Absent, [present |-> TRUE, toNativeTokenAmount |-> <<2, 5, 0, 0, 0, 0, 0>>,
            targetRelayerFee |-> <<1, 0, 0, 0, 0, 0>>]}

DestinationChains == {"Ethereum", "Solana", "Sui"}

\* solanaRpc: whether config.rpcs.Solana is set.
TokenBridgeReceipts ==
  {[from |-> "Ethereum", to |-> to, hasOriginTxs |-> o.has, originTxs |-> o.txs,
    token |-> token, dest |-> dest, relay |-> relay, solanaRpc |-> rpc] :
     to \in DestinationChains, o \in OriginOptions, token \in PayloadTokens,
     dest \in PayloadDestinations, relay \in RelayPayloads, rpc \in BOOLEAN}

\* receipt.attestation.attestation.message.payload of a CCTP receipt.
CirclePayloads ==
  {Absent} \cup
  {[present |-> TRUE, burnToken |-> b, amount |-> n, messageSender |-> "u:alice",
    mintRecipient |-> "u:ata"] :
     b \in {"u:0xusdc", "u:0xweth", "u:solusdc", "u:0xdead"},
     n \in {<<1, 5, 0, 0, 0, 0, 0, 0, 0>>}}

CCTPReceipts ==
  {[from |-> from, to |-> to, hasOriginTxs |-> o.has, originTxs |-> o.txs,
    attestation |-> payload, solanaRpc |-> rpc] :
     from \in {"Ethereum", "Solana"}, to \in DestinationChains, o \in OriginOptions,
     payload \in CirclePayloads, rpc \in BOOLEAN}

\* The transfer payload an NTT attestation carries.
NttTransfers ==
  {[nttManagerPayload |->
      [sender |-> "u:alice",
       payload |-> [recipientAddress |-> "u:bob",
                    trimmedAmount |-> [amount |-> n, decimals |-> d]]]] :
     n \in {<<1, 2, 3, 4, 5, 6, 7, 8, 9>>, <<5>>}, d \in {6, 8}}

\* The two shapes of an NTT attestation: the transfer payload at top level
\* under the tag 'WormholeTransfer', or nested in the payload of another tag.
TopLevel(transfer) == [payloadName |-> "WormholeTransfer", payload |-> transfer]

Nested(transfer) ==
  [payloadName |-> "WormholeTransferStandardRelayer", payload |-> [payload |-> transfer]]

NttReceipts ==
  {[from |-> "Ethereum", to |-> to, hasOriginTxs |-> o.has, originTxs |-> o.txs,
    sourceToken |-> src, destinationToken |-> dst, attestation |-> att] :
     to \in {"Ethereum", "Solana"}, o \in OriginOptions,
     src \in {"0xweth", "0xdead"}, dst \in {"0xusdc", "solusdc", "0xdead"},
     att \in {TopLevel(t) : t \in NttTransfers} \cup {Nested(t) : t \in NttTransfers}}

Routes == {"ManualTokenBridge", "ManualCCTP", "ManualNtt", "AutomaticNtt",
           "AutomaticTokenBridge"}

\* The receipts handed to parseReceipt with a route; the automatic
\* token-bridge route's are the token-bridge receipts with a relayer payload,
\* here those to Solana.
ReceiptsOf(route) ==
  CASE route = "ManualTokenBridge" -> TokenBridgeReceipts
    [] route = "ManualCCTP" -> CCTPReceipts
    [] route \in {"ManualNtt", "AutomaticNtt"} -> NttReceipts
    [] OTHER -> {r \in TokenBridgeReceipts :
                   r.relay.present /\ r.to = "Solana" /\ r.solanaRpc}

---------------------------------------------------------------------------
(* Receipt normalizer: parseReceipt *)

\* A Partial<TransferInfo> with no field set.
NoInfo ==
  [toChain |-> undefined, fromChain |-> undefined, sendTx |-> undefined,
   sender |-> undefined, recipient |-> undefined, amount |-> undefined,
   tokenAddress |-> undefined, tokenKey |-> undefined, tokenDecimals |-> undefined,
   receivedTokenKey |-> undefined, receiveAmount |-> undefined,
   receiveNativeAmount |-> undefined, relayerFee |-> undefined]

\* How a stretch of a parser between two awaits ends: by returning txData, by
\* throwing, or at the await named by pc.
Return(txData) == [pc |-> "return", txData |-> txData, error |-> "none"]

Throw(error) == [pc |-> "throw", txData |-> NoInfo, error |-> error]

Await(pc, txData) == [pc |-> pc, txData |-> txData, error |-> "none"]

\* 'originTxs' in receipt && receipt.originTxs.length > 0
HasOriginTx(receipt) == receipt.hasOriginTxs /\ Len(receipt.originTxs) > 0

\* The id of the first origin transaction.
SendTxOfFirst(receipt) == receipt.originTxs[1].txid

\* receipt.originTxs[receipt.originTxs.length - 1].txid
SendTx(receipt) == receipt.originTxs[Len(receipt.originTxs)].txid

\* The recipient taken from the token account: undefined when the lookup fails.
OwnerOrAtaUnset(ata, ok) == IF ok THEN OwnerOf(ata) ELSE undefined

\* The recipient for a Solana destination after splToken.getAccount settled:
\* the account's owner, or in the catch block the token account itself.
OwnerOrAta(ata, ok) == IF ok THEN OwnerOf(ata) ELSE ata

\* parseTokenBridgeReceipt, its recipient part.
TokenBridgeRecipient(receipt, txData) ==
  IF ~receipt.dest.present THEN Return(txData)
  ELSE IF receipt.to = "Solana"
    THEN IF ~receipt.solanaRpc THEN Throw("Missing Solana RPC")
         ELSE Await("getAccount", txData)
    ELSE Return([txData EXCEPT !.recipient = toNative(receipt.dest.address)])

\* parseTokenBridgeReceipt from the answer of tb.getTokenNativeAddress on.
TokenBridgeToken(receipt, txData) ==
  LET tokenAddress == toNative(receipt.token.address)
      found == findTokenConfigV1(TokenId(receipt.token.chain, tokenAddress), tokensArr)
  IN IF found = <<>> THEN Throw("Unknown token")
     ELSE LET tokenV1 == found[1]
              decimals == getTokenDecimals(receipt.from, tokenV1)
              shown == Display(receipt.token.amount, DisplayDecimals(decimals))
              filled == [txData EXCEPT
                           !.tokenDecimals = decimals,
                           !.amount = shown,
                           !.tokenAddress = tokenAddress,
                           !.tokenKey = tokenV1.key,
                           !.receivedTokenKey = tokenV1.key,
                           !.receiveAmount = shown,
                           !.receiveNativeAmount =
                              IF receipt.relay.present
                                THEN FmtNumber(receipt.relay.toNativeTokenAmount,
                                               DisplayDecimals(decimals))
                                ELSE @,
                           !.relayerFee =
                              IF receipt.relay.present
                                THEN [fee |-> FmtNumber(receipt.relay.targetRelayerFee,
                                                        DisplayDecimals(decimals)),
                                      tokenKey |-> tokenV1.key]
                                ELSE @]
          IN TokenBridgeRecipient(receipt, filled)

\* The parser going on to the bridge without testing payload.token.
parseTokenBridgeReceiptTokenUntested(receipt) ==
  IF ~HasOriginTx(receipt) THEN Throw("Can't find txid in receipt")
  ELSE Await("getWormholeContextV2",
             [NoInfo EXCEPT !.toChain = receipt.to, !.fromChain = receipt.from,
                            !.sendTx = SendTx(receipt)])

\* parseTokenBridgeReceipt up to its first await.
parseTokenBridgeReceipt(receipt) ==
  IF ~HasOriginTx(receipt) THEN Throw("Can't find txid in receipt")
  ELSE IF ~receipt.token.present THEN Throw("Attestation is missing token.")
  ELSE Await("getWormholeContextV2",
             [NoInfo EXCEPT !.toChain = receipt.to, !.fromChain = receipt.from,
                            !.sendTx = SendTx(receipt)])

\* The first USDC of the token list, whatever its chain.
DestinationUsdcAnyChain(tokens, chain) ==
  LET ks == {k \in DOMAIN tokens : tokens[k].symbol = "USDC"}
  IN IF ks = {} THEN <<>> ELSE <<tokens[CHOOSE k \in ks : \A j \in ks : k <= j]>>

\* config.tokensArr.find(symbol === 'USDC' && nativeChain === toChain)
DestinationUsdc(tokens, chain) ==
  LET ks == {k \in DOMAIN tokens :
               tokens[k].symbol = "USDC" /\ tokens[k].nativeChain = chain}
  IN IF ks = {} THEN <<>> ELSE <<tokens[CHOOSE k \in ks : \A j \in ks : k <= j]>>

\* parseCCTPReceipt, its destination-token part.
CctpDestination(receipt, txData) ==
  LET found == DestinationUsdc(tokensArr, txData.toChain)
  IN IF found = <<>> THEN Throw("Couldn't find USDC for destination chain")
     ELSE Return([txData EXCEPT !.receivedTokenKey = found[1].key])

\* parseCCTPReceipt up to its await of splToken.getAccount, or to its end.
parseCCTPReceipt(receipt) ==
  IF ~HasOriginTx(receipt) THEN Throw("Can't find txid in receipt")
  ELSE IF ~receipt.attestation.present THEN Throw("Missing Circle attestation")
  ELSE LET payload == receipt.attestation
           sourceTokenId == TokenId(receipt.from, toNative(payload.burnToken))
           found == findTokenConfigV1(sourceTokenId, tokensArr)
       IN IF found = <<>> THEN Throw("Couldn't find USDC for source chain")
          ELSE LET usdcLegacy == found[1]
                   decimals == getTokenDecimals(receipt.from, usdcLegacy)
                   shown == Display(payload.amount, decimals)
                   txData == [NoInfo EXCEPT
                                !.toChain = receipt.to,
                                !.fromChain = receipt.from,
                                !.sendTx = SendTx(receipt),
                                !.tokenAddress = sourceTokenId.address,
                                !.tokenKey = usdcLegacy.key,
                                !.tokenDecimals = decimals,
                                !.amount = shown,
                                !.receiveAmount = shown,
                                !.sender = toNative(payload.messageSender)]
               IN IF receipt.to = "Solana"
                    THEN IF ~receipt.solanaRpc THEN Throw("Missing Solana RPC")
                         ELSE Await("getAccount", txData)
                    ELSE CctpDestination(receipt,
                           [txData EXCEPT !.recipient = toNative(payload.mintRecipient)])

\* The payload read from the attestation's payload field whatever its tag.
NttPayloadTopLevelOnly(attestation) == attestation.payload

\* const { payload } = payloadName === 'WormholeTransfer' ? attestation
\*                                                        : attestation.payload
NttPayload(attestation) ==
  IF attestation.payloadName = "WormholeTransfer" THEN attestation.payload
  ELSE attestation.payload.payload

\* parseNttReceipt: no await.  Reading nttManagerPayload of a payload that has
\* none is a TypeError.
parseNttReceipt(receipt) ==
  IF ~HasOriginTx(receipt) THEN Throw("Can't find txid in receipt")
  ELSE LET src == findTokenConfigV1(TokenId(receipt.from, receipt.sourceToken), tokensArr)
           dst == findTokenConfigV1(TokenId(receipt.to, receipt.destinationToken), tokensArr)
           payload == NttPayload(receipt.attestation)
       IN IF src = <<>> THEN Throw("Unknown src token")
          ELSE IF dst = <<>> THEN Throw("Unknown dst token")
          ELSE IF "nttManagerPayload" \notin DOMAIN payload THEN Throw("TypeError")
          ELSE LET manager == payload.nttManagerPayload
                   trimmedAmount == manager.payload.trimmedAmount
                   amt == Display(trimmedAmount.amount, trimmedAmount.decimals)
               IN Return([toChain |-> receipt.to,
                          fromChain |-> receipt.from,
                          sendTx |-> SendTx(receipt),
                          sender |-> toNative(manager.sender),
                          recipient |-> toNative(manager.payload.recipientAddress),
                          amount |-> amt,
                          tokenAddress |-> src[1].address,
                          tokenKey |-> src[1].key,
                          tokenDecimals |-> trimmedAmount.decimals,
                          receivedTokenKey |-> dst[1].key,
                          receiveAmount |-> amt,
                          receiveNativeAmount |-> undefined,
                          relayerFee |-> undefined])

\* The switch with the token-bridge parser as its default branch.
ParserOfDefaultTokenBridge(route) ==
  CASE route = "ManualCCTP" -> "parseCCTPReceipt"
    [] route \in {"ManualNtt", "AutomaticNtt"} -> "parseNttReceipt"
    [] OTHER -> "parseTokenBridgeReceipt"

\* The switch of parseReceipt: the parser of a route ("none": the default).
ParserOf(route) ==
  CASE route = "ManualTokenBridge" -> "parseTokenBridgeReceipt"
    [] route = "ManualCCTP" -> "parseCCTPReceipt"
    [] route \in {"ManualNtt", "AutomaticNtt"} -> "parseNttReceipt"
    [] OTHER -> "none"

\* parseReceipt up to the first await of the parser it dispatches to.
ParseStart(route, receipt) ==
  CASE ParserOf(route) = "parseTokenBridgeReceipt" -> parseTokenBridgeReceipt(receipt)
    [] ParserOf(route) = "parseCCTPReceipt" -> parseCCTPReceipt(receipt)
    [] ParserOf(route) = "parseNttReceipt" -> parseNttReceipt(receipt)
    [] OTHER -> Throw("Unknown route type " \o route)

\* parseTokenBridgeReceipt after one of its three bridge calls settled; a
\* rejection is not caught.
AfterBridgeRpc(call, ok) ==
  IF ~ok THEN Throw("rpc failed")
  ELSE CASE call.pc = "getWormholeContextV2" -> Await("getTokenBridge", call.txData)
         [] call.pc = "getTokenBridge" -> Await("getTokenNativeAddress", call.txData)
         [] OTHER -> TokenBridgeToken(call.receipt, call.txData)

\* The token account whose owner a parser looks up.
Ata(call) ==
  IF call.parser = "parseCCTPReceipt" THEN toNative(call.receipt.attestation.mintRecipient)
  ELSE toNative(call.receipt.dest.address)

\* A parser after splToken.getAccount settled, inside its try block.
AfterAccount(call, ok) ==
  LET txData == [call.txData EXCEPT !.recipient = OwnerOrAta(Ata(call), ok)]
  IN IF call.parser = "parseCCTPReceipt" THEN CctpDestination(call.receipt, txData)
     ELSE Return(txData)

\* The record of a completed parseReceipt call: how it ended, the awaited
\* calls it made and how the owner lookup settled, if it was made.
ParseDone(call, step, owner) ==
  [op |-> "parseReceipt", route |-> call.route, receipt |-> call.receipt,
   parser |-> call.parser,
   outcome |-> IF step.pc = "return" THEN "ok" ELSE "error",
   ret |-> step.txData, error |-> step.error, rpcs |-> call.rpcs, owner |-> owner]

\* parseReceipt up to its first await.
parseReceipt(route, receipt) ==
  /\ Len(parsing) < MaxParsing
  /\ LET step == ParseStart(route, receipt)
         call == [route |-> route, receipt |-> receipt, parser |-> ParserOf(route),
                  pc |-> step.pc, txData |-> step.txData,
                  rpcs |-> IF step.pc \in {"return", "throw"} THEN <<>> ELSE <<step.pc>>]
     IN IF step.pc \in {"return", "throw"}
          THEN /\ last' = ParseDone(call, step, "none")
               /\ UNCHANGED parsing
          ELSE /\ parsing' = Append(parsing, call)
               /\ last' = Pending("parseReceipt")
  /\ UNCHANGED <<registryVars, resolverVars, dispatcherVars>>

\* The call goes on from an await that settled.
Advance(i, step, owner) ==
  IF step.pc \in {"return", "throw"}
    THEN /\ parsing' = RemoveAt(parsing, i)
         /\ last' = ParseDone(parsing[i], step, owner)
    ELSE /\ parsing' = [parsing EXCEPT ![i].pc = step.pc, ![i].txData = step.txData,
                                       ![i].rpcs = Append(@, step.pc)]
         /\ last' = Pending("parseReceipt")

\* getWormholeContextV2, getTokenBridge or getTokenNativeAddress settled.
bridgeRpcSettled(i, ok) ==
  /\ i \in DOMAIN parsing
  /\ parsing[i].pc \in {"getWormholeContextV2", "getTokenBridge", "getTokenNativeAddress"}
  /\ Advance(i, AfterBridgeRpc(parsing[i], ok), "none")
  /\ UNCHANGED <<registryVars, resolverVars, dispatcherVars>>

\* splToken.getAccount settled.
getAccountSettled(i, ok) ==
  /\ i \in DOMAIN parsing
  /\ parsing[i].pc = "getAccount"
  /\ Advance(i, AfterAccount(parsing[i], ok), IF ok THEN "ok" ELSE "failed")
  /\ UNCHANGED <<registryVars, resolverVars, dispatcherVars>>

Parser ==
  \/ \E route \in Routes : \E receipt \in ReceiptsOf(route) : parseReceipt(route, receipt)
  \/ \E i \in 1..MaxParsing, ok \in BOOLEAN : bridgeRpcSettled(i, ok)
  \/ \E i \in 1..MaxParsing, ok \in BOOLEAN : getAccountSettled(i, ok)

ParserSpec == Init /\ [][Parser]_vars

---------------------------------------------------------------------------
(* Claims about the normalizer, checked under ParserSpec *)

KnownRoutes == {"ManualTokenBridge", "ManualCCTP", "ManualNtt", "AutomaticNtt"}

\* The parser of each known route's attestation variant.
VariantParser(route) ==
  CASE route = "ManualTokenBridge" -> "parseTokenBridgeReceipt"
    [] route = "ManualCCTP" -> "parseCCTPReceipt"
    [] OTHER -> "parseNttReceipt"

\* C21: a parseReceipt call with a route other than the four known ones fails
\* with the unknown-route-type error naming the route, having awaited no RPC
\* or lookup, and it is never in flight; a call with a known route runs the
\* parser of that route's variant.
C21_RouteDispatch ==
  /\ \A i \in DOMAIN parsing :
       /\ parsing[i].route \in KnownRoutes
       /\ parsing[i].parser = VariantParser(parsing[i].route)
  /\ Completed("parseReceipt")
       => IF last.route \in KnownRoutes
            THEN /\ last.parser = VariantParser(last.route)
                 /\ last.error # "Unknown route type " \o last.route
            ELSE /\ last.outcome = "error"
                 /\ last.error = "Unknown route type " \o last.route
                 /\ last.rpcs = <<>>

C21_Witness ==
  /\ Completed("parseReceipt")
  /\ last.route = "AutomaticTokenBridge"
  /\ last.error = "Unknown route type AutomaticTokenBridge"
  /\ last.receipt.hasOriginTxs /\ last.receipt.token.present

\* C22: for each of the four routes, a parseReceipt call that returns had a
\* receipt with at least one origin transaction and returns the id of the last
\* one as sendTx; a receipt whose origin transaction list is absent or empty
\* fails with the missing-source-transaction error, and no call is in flight
\* for such a receipt.
C22_SendTxIsLastOriginTx ==
  /\ \A i \in DOMAIN parsing :
       /\ parsing[i].receipt.hasOriginTxs
       /\ parsing[i].receipt.originTxs # <<>>
       /\ parsing[i].txData.sendTx
            = parsing[i].receipt.originTxs[Len(parsing[i].receipt.originTxs)].txid
  /\ (Completed("parseReceipt") /\ last.route \in KnownRoutes)
       => LET txs == last.receipt.originTxs
          IN /\ last.outcome = "ok"
                  => /\ last.receipt.hasOriginTxs
                     /\ txs # <<>>
                     /\ last.ret.sendTx = txs[Len(txs)].txid
             /\ (~last.receipt.hasOriginTxs \/ txs = <<>>)
                  => /\ last.outcome = "error"
                     /\ last.error = "Can't find txid in receipt"

C22_Witness ==
  /\ Completed("parseReceipt")
  /\ last.outcome = "ok"
  /\ last.route = "ManualCCTP"
  /\ Len(last.receipt.originTxs) = 2
  /\ last.ret.sendTx = "txB"

\* The token records the payload's token names after native-address resolution.
PayloadTokenRecords(receipt) ==
  Matching(TokenId(receipt.token.chain, toNative(receipt.token.address)), tokensArr)

\* C23: a token-bridge receipt whose token has d decimals and whose wire amount
\* is a parses to the amount a scaled down by 10^min(8, d), and to
\* tokenDecimals d: d = 6 and a = 150000000 give "150", d = 18 and
\* a = 123456789 give "1.23456789".
C23_AmountAtCappedPrecision ==
  (/\ Completed("parseReceipt")
   /\ last.parser = "parseTokenBridgeReceipt"
   /\ last.outcome = "ok")
    => \A k \in PayloadTokenRecords(last.receipt) :
         LET d == tokensArr[k].decimals
             a == last.receipt.token.amount
         IN /\ last.ret.tokenDecimals = d
            /\ last.ret.amount = Display(a, IF d < 8 THEN d ELSE 8)
            /\ (d = 6 /\ a = <<1, 5, 0, 0, 0, 0, 0, 0, 0>>) => last.ret.amount = "150"
            /\ (d = 18 /\ a = <<1, 2, 3, 4, 5, 6, 7, 8, 9>>)
                 => last.ret.amount = "1.23456789"

C23_Witness ==
  /\ Completed("parseReceipt")
  /\ last.parser = "parseTokenBridgeReceipt"
  /\ last.outcome = "ok"
  /\ last.ret.tokenDecimals = 18
  /\ last.ret.amount = "1.23456789"

\* C24: a token-bridge receipt with an origin transaction whose payload has
\* no token fails with the missing-token error having awaited no call, and no
\* call is in flight for it; one whose token, its native address resolved,
\* names no token record fails with the unknown-token error.
C24_UnknownOrMissingToken ==
  /\ \A i \in DOMAIN parsing :
       parsing[i].parser = "parseTokenBridgeReceipt" => parsing[i].receipt.token.present
  /\ (/\ Completed("parseReceipt")
      /\ last.parser = "parseTokenBridgeReceipt"
      /\ last.receipt.hasOriginTxs /\ last.receipt.originTxs # <<>>)
       => IF ~last.receipt.token.present
            THEN /\ last.outcome = "error"
                 /\ last.error = "Attestation is missing token."
                 /\ last.rpcs = <<>>
            ELSE (PayloadTokenRecords(last.receipt) = {} /\ last.error # "rpc failed")
                   => /\ last.outcome = "error"
                      /\ last.error = "Unknown token"
                      /\ last.ret = NoInfo

C24_Witness ==
  /\ Completed("parseReceipt")
  /\ last.parser = "parseTokenBridgeReceipt"
  /\ last.error = "Unknown token"
  /\ last.rpcs = <<"getWormholeContextV2", "getTokenBridge", "getTokenNativeAddress">>

\* C25: a token-bridge or CCTP parse that looked up the owner of the token
\* account of a Solana destination ends the same way whether the lookup
\* succeeded or failed: it returns exactly if the rest of the parse allows it,
\* with the account's owner as recipient when the lookup succeeded and the
\* token account's address when it failed.
C25_OwnerLookupFailsSoft ==
  (Completed("parseReceipt") /\ last.owner # "none")
    => LET ata == IF last.parser = "parseCCTPReceipt"
                    THEN toNative(last.receipt.attestation.mintRecipient)
                    ELSE toNative(last.receipt.dest.address)
           rest == \/ last.parser = "parseTokenBridgeReceipt"
                   \/ \E k \in DOMAIN tokensArr :
                        /\ tokensArr[k].symbol = "USDC"
                        /\ tokensArr[k].nativeChain = last.receipt.to
       IN /\ last.receipt.to = "Solana"
          /\ last.outcome = "ok" <=> rest
          /\ last.outcome = "ok"
               => last.ret.recipient = IF last.owner = "ok" THEN OwnerOf(ata) ELSE ata

C25_Witness ==
  /\ Completed("parseReceipt")
  /\ last.parser = "parseCCTPReceipt"
  /\ last.owner = "failed"
  /\ last.outcome = "ok"
  /\ last.ret.recipient = "ata"

\* C26: a CCTP receipt parses successfully only if the token record named by
\* its source chain and burn-token address exists and is a USDC record.
C26_SourceTokenIsUsdc ==
  (/\ Completed("parseReceipt")
   /\ last.parser = "parseCCTPReceipt"
   /\ last.outcome = "ok")
    => \E k \in Matching(TokenId(last.receipt.from,
                                 toNative(last.receipt.attestation.burnToken)), tokensArr) :
         tokensArr[k].symbol = "USDC"

\* C27: a CCTP parse that returns has as receivedTokenKey the key of a USDC
\* record whose native chain is the destination chain; a CCTP receipt that
\* passes the checks before it and has no such record fails with the
\* unknown-destination-token error.
C27_DestinationTokenIsUsdcOfChain ==
  (Completed("parseReceipt") /\ last.parser = "parseCCTPReceipt")
    => LET usdc == {k \in DOMAIN tokensArr : /\ tokensArr[k].symbol = "USDC"
                                             /\ tokensArr[k].nativeChain = last.receipt.to}
       IN /\ last.outcome = "ok"
               => \E k \in usdc : last.ret.receivedTokenKey = tokensArr[k].key
          /\ (/\ usdc = {}
              /\ last.receipt.hasOriginTxs /\ last.receipt.originTxs # <<>>
              /\ last.receipt.attestation.present
              /\ Matching(TokenId(last.receipt.from,
                                  toNative(last.receipt.attestation.burnToken)),
                          tokensArr) # {})
               => /\ last.outcome = "error"
                  /\ last.error = "Couldn't find USDC for destination chain"
                  /\ last.ret = NoInfo

C27_Witness ==
  /\ Completed("parseReceipt")
  /\ last.parser = "parseCCTPReceipt"
  /\ last.receipt.to = "Sui"
  /\ last.error = "Couldn't find USDC for destination chain"

\* The attestation that carries the same transfer payload in the other shape.
OtherShape(attestation) ==
  IF attestation.payloadName = "WormholeTransfer"
    THEN Nested(attestation.payload)
    ELSE TopLevel(attestation.payload.payload)

\* C28: an NTT parse, manual or automatic, ends as the parse of the receipt
\* whose attestation carries the same transfer payload in the other shape
\* (top-level under the plain transfer tag, or nested): with the same
\* TransferInfo, relayerFee unset, or with the same error.
C28_NttShapesParseAlike ==
  (Completed("parseReceipt") /\ last.parser = "parseNttReceipt")
    => LET other == parseNttReceipt([last.receipt EXCEPT
                                       !.attestation = OtherShape(@)])
       IN /\ last.outcome = "ok" <=> other.pc = "return"
          /\ last.error = other.error
          /\ last.outcome = "ok"
               => /\ last.ret = other.txData
                  /\ last.ret.relayerFee = undefined

C28_Witness ==
  /\ Completed("parseReceipt")
  /\ last.route = "AutomaticNtt"
  /\ last.outcome = "ok"
  /\ last.receipt.attestation.payloadName # "WormholeTransfer"
  /\ last.ret.amount = "1.23456789"

---------------------------------------------------------------------------
(* Claims about the loading of adapter modules, checked under DispatcherSpec *)

\* The adapter module a dispatcher call needs.
NeededAdapter(call) ==
  CASE call.kind = "watchAsset" -> "evm"
    [] call.kind = "switchChain" -> SwitchDelegate(ChainContext(call.chain))
    [] OTHER -> SignDelegate(ChainContext(call.chain))

---------------------------------------------------------------------------
(* Claims about events after a swap, checked under Spec *)

\* C30: a disconnect event that follows a swapWalletConnections clears the
\* store's wallet of every role the emitting wallet is bound to when the event
\* arrives, and leaves the store's wallet of every other role as it was.
C30_DisconnectClearsCurrentRole ==
  [][(last.op = "swapWalletConnections" /\ last'.op = "disconnectEvent")
       => \A r \in TransferWallet :
            IF walletConnection[r] = last'.wallet
              THEN walletStore'[r] = NoWallet
              ELSE walletStore'[r] = walletStore[r]]_vars

---------------------------------------------------------------------------
(* Claims about rebinding, markers and failed or overlapping connects,
   checked under Spec *)

\* Wallet b is the wallet bound to role r and connected for it, and wallet a,
\* another wallet connected for r earlier, still has its listeners.
Rebound(a, b, r) ==
  /\ a # b
  /\ \E k \in DOMAIN listeners[a] : listeners[a][k].type = r
  /\ ConnectedFor(b, r)

\* C31: a disconnect event of a wallet a from which a role was rebound to a
\* wallet b leaves the store's wallet of the role and the marker that holds
\* b's name as they were.
C31_UnboundWalletEventsClearNothing ==
  [][last'.op = "disconnectEvent"
       => \A r \in TransferWallet, b \in Wallets :
            Rebound(last'.wallet, b, r)
              => /\ walletStore'[r] = walletStore[r]
                 /\ \A c \in ContextNames :
                      localStorage[c] = b => localStorage'[c] = b]_vars

\* C32: whenever a wallet bound to a role has a listener pair attached (it was
\* connected successfully and has emitted no disconnect event since), the
\* marker of every context it was connected under is present.
C32_MarkerPresentWhileConnected ==
  \A r \in TransferWallet, w \in Wallets :
    walletConnection[r] = w
      => \A k \in DOMAIN listeners[w] : localStorage[listeners[w][k].context] # undefined

\* C33: when a connectWallet call has just failed and no call is in flight,
\* every wallet bound to a role is one whose handshake completed: the failed
\* call has bound no wallet.
C33_FailedConnectBindsNothing ==
  (last.op = "connectWallet" /\ last.outcome = "error" /\ tasks = <<>>)
    => \A r \in TransferWallet :
         walletConnection[r] # undefined => listeners[walletConnection[r]] # <<>>

\* C34: when the handshakes of two connectWallet calls for one role that were
\* in flight together have both resolved, one right after the other, the name
\* published for the role is that of the wallet bound to it.
C34_OverlappingConnectsAgree ==
  [][(/\ last.op = "connectWallet" /\ last.outcome = "ok"
      /\ last'.op = "connectWallet" /\ last'.outcome = "ok"
      /\ Len(tasks) = 1 /\ tasks' = <<>>
      /\ listeners[last.wallet][Len(listeners[last.wallet])].type = tasks[1].type)
       => walletStore'[tasks[1].type].name = walletConnection'[tasks[1].type]]_vars

---------------------------------------------------------------------------
(* Claims about failed lookups, checked under ResolverSpec *)

\* Completed call i made the live lookup and got no address from it: the
\* lookup was rejected or answered with none.
LookupFailed(i) == resolved[i].live = 1 /\ resolved[i].ret = null

\* C37: the step in which a live lookup is rejected or answers with no address
\* leaves the cache as it was, and a call for the same token and chain started
\* after such a call returned is served from the cache only if another call's
\* lookup found the address: otherwise it makes a live lookup of its own, or
\* fails before making it.
C37_FailedLookupLeavesCache ==
  /\ [][(/\ Len(resolved') = Len(resolved) + 1
         /\ resolved'[Len(resolved')].live = 1
         /\ resolved'[Len(resolved')].ret = null)
          => cache' = cache /\ last'.wrote = {}]_vars
  /\ [](\A i, j \in DOMAIN resolved :
          (Sequential(i, j) /\ LookupFailed(i))
            => \/ resolved[j].live = 1
               \/ resolved[j].ret = thrown
               \/ \E k \in DOMAIN resolved \ {i} :
                    /\ resolved[k].token = resolved[i].token
                    /\ resolved[k].chain = resolved[i].chain
                    /\ resolved[k].live = 1
                    /\ resolved[k].ret = resolved[j].ret)

C37_Witness ==
  \E i, j \in DOMAIN resolved :
    /\ Sequential(i, j)
    /\ LookupFailed(i)
    /\ resolved[j].live = 1
    /\ IsAddress(resolved[j].ret)
    /\ <<resolved[j].token, resolved[j].chain>> \in DOMAIN cache

---------------------------------------------------------------------------
(* Claims about the returned TransferInfo, checked under ParserSpec *)

\* C36: every TransferInfo parseReceipt returns, for any of the four routes,
\* has recipient, amount, tokenKey, receivedTokenKey, fromChain and toChain
\* set.
C36_ReturnedInfoIsPopulated ==
  (Completed("parseReceipt") /\ last.outcome = "ok")
    => /\ last.ret.recipient # undefined
       /\ last.ret.amount # undefined
       /\ last.ret.tokenKey # undefined
       /\ last.ret.receivedTokenKey # undefined
       /\ last.ret.fromChain # undefined
       /\ last.ret.toChain # undefined

---------------------------------------------------------------------------
(* Claims about the dispatcher after a disconnect event, checked under
   SessionSpec *)

\* signAndSendTransaction and disconnect on Ethereum, with the registry
\* operations that connect a wallet there and deliver its disconnect event.
SessionNext ==
  \/ \E type \in TransferWallet, w \in Wallets : connectWallet(type, "Ethereum", w)
  \/ \E i \in 1..MaxTasks, a \in Addresses : connectWalletResolved(i, a)
  \/ \E w \in Wallets : emitDisconnect(w)
  \/ \E type \in TransferWallet : signAndSendTransaction("Ethereum", type)
  \/ \E i \in 1..MaxDispatching, ok \in BOOLEAN : adapterImported(i, ok)
  \/ \E i \in 1..MaxDispatching, result \in {"ok"} \cup AdapterErrors, id \in TxIds :
        signAndSendTransactionSettled(i, result, id)
  \/ \E type \in TransferWallet : disconnect(type)

SessionSpec == Init /\ [][SessionNext]_vars

\* Role r is bound to the wallet whose disconnect event was the last step, and
\* that wallet was connected for r.
JustDisconnected(r) ==
  /\ last.op = "disconnectEvent"
  /\ r \in last.types
  /\ walletConnection[r] = last.wallet

\* C35: right after the disconnect event of the wallet bound to a role, a
\* signAndSendTransaction call for the role fails with the wallet-not-connected
\* error, putting no call in flight, and a disconnect call for the role calls
\* no wallet.
C35_DisconnectedRoleHasNoWallet ==
  [][/\ \A i \in DOMAIN dispatching' :
          (i > Len(dispatching) /\ dispatching'[i].kind = "signAndSendTransaction")
            => ~JustDisconnected(dispatching'[i].type)
     /\ (last'.op = "signAndSendTransaction" /\ last'.outcome # "pending"
           /\ JustDisconnected(last'.type))
          => last'.outcome = "error" /\ last'.error = "wallet is undefined"
     /\ (last'.op = "disconnect" /\ JustDisconnected(last'.type))
          => last'.called = <<>>]_vars

====
